---- MODULE Spec2Model ----
(***************************************************************************)
(* Model of nephos/uploader/gdrive.py: the GDrive uploader.                *)
(*                                                                         *)
(* GDrive.auth() loads the stored credential, falls back to the            *)
(* interactive OAuth flow, stores the credential and builds the service.   *)
(* GDrive._upload(tasks_list) walks the task list: mark Uploading, create  *)
(* the Drive folder, upload the files, share, remove the local folder,     *)
(* add a line to the report; then GDrive.upload_log() rotates the log.     *)
(*                                                                         *)
(* Each action is one step of that code between two calls that leave the   *)
(* process (the Drive service, the file system, the operator), together    *)
(* with the exception handling that follows it.  The outcome of such a     *)
(* call is drawn with \E.  tasks_list is an input: its length is drawn     *)
(* when _upload starts, a task's share list when _share splits it, its     *)
(* folder's listing when os.listdir reads it.                              *)
(*                                                                         *)
(* auth() runs when the uploader is constructed; _upload is a static       *)
(* method that reads the credential file again.  A behaviour of Spec is    *)
(* one call of either, started with any content of the credential file;    *)
(* RetrySpec adds the later calls of _upload for the tasks that failed.    *)
(***************************************************************************)
EXTENDS Naturals, Sequences, FiniteSets

\* ---------------------------------------------------------------- bounds
MaxTasks == 2
MaxFiles == 2
MaxRuns  == 2

\* ------------------------------------------------------------ vocabulary
None == "None"

\* File names as the parts between dots (what filename.split('.') yields).
Video   == <<"rec", "mp4">>
Subs    == <<"rec", "srt">>
Blob    == <<"data", "bin">>
Sidecar == <<"ffmpeg2pass-0", "log", "mbtree">>
FileNames == {Video, Subs, Blob, Sidecar}

\* The time-stamped copy of the log: nephos_%d%m%Y_%H%M.log
TimestampedLog == <<"nephos_ts", "log">>

\* The share lists of the tasks, split: no, one or two entities.  The
\* Drive service refuses the permission of the entities in Refused (an
\* address that is no account).
ShareLists == {<<>>, <<"a">>, <<"b">>, <<"a", "b">>}
Refused == {"b"}

\* What the Drive calls raise, per call: a request's error status, and
\* for a resumable media upload its interruption.
CreateErrors == {"HttpError"}
MediaErrors  == {"ResumableUploadError"}
BatchErrors  == {"HttpError"}

\* An except clause that also names KeyError.
CaughtBroad == {"UnexpectedBodyError", "ResumableUploadError",
                "UnexpectedMethodError", "HttpError", "KeyError"}

\* The classes the except clause of _upload names.
Caught == {"UnexpectedBodyError", "ResumableUploadError",
           "UnexpectedMethodError", "HttpError"}

\* Sequences over S without repetition, of length at most k.
SeqsUpTo(S, k) ==
  UNION { { s \in [1..m -> S] : \A i, j \in 1..m : i # j => s[i] # s[j] }
          : m \in 0..k }

Listings == SeqsUpTo(FileNames, MaxFiles)

\* ----------------------------------------------------------------- state
VARIABLES
  pc,         \* where the process is
  exc,        \* the exception that left the call ("None": none)
  store,      \* content of the credential file: "absent", "invalid", "valid"
  got,        \* what store.get() returned in auth()
  credentials,\* auth()'s local variable
  flows,      \* how often _init_auth_flow was entered
  puts,       \* how often store.put was called
  authorized, \* credentials handed to authorize(): a sequence
  mails,      \* send_mail calls: a sequence of priorities
  n,          \* len(tasks_list)
  idx,        \* position of the loop in tasks_list (1-based), 0 before
  share_list, \* _share: the current task's share list once split
  folder_id,  \* _upload's local
  error,      \* _upload's local
  files,      \* _upload_files' local: the files still to upload
  status,     \* the task queue: task -> "Pending" | "Uploading" | "Failed"
  local,      \* task -> whether its folder is on local storage
  container,  \* task -> "none" | "id" | "noid": its Drive folder
  blobs,      \* task -> number of files uploaded for it
  progress,   \* task -> the last step that returned: "none" | "issued"
              \*   (create called) | "listed" | "shared"
  enumerated, \* task -> number of files _upload_files was to upload
  unsupported,\* task -> whether a file's extension was not in the table
  attempts,   \* task -> number of _upload_file calls made for its files
  batch,      \* the requests held by batch_service
  sent,       \* the permission requests sent to Drive, in order
  report,     \* add_to_report lines
  log,        \* records in nephos.log
  snapshot,   \* the time-stamped copy: None or its content
  prelog,     \* content of nephos.log when upload_log was entered
  logfile,    \* outcome of the log's upload: "none" | "id" | "noid" | "raised"
  runs,       \* how many calls of _upload there have been
  folders,    \* the task folders created on Drive, by task, in order
  rotations   \* how often this call of _upload has called upload_log

vars == <<pc, exc, store, got, credentials, flows, puts, authorized, mails,
          n, idx, share_list, folder_id, error, files, status, local,
          container, blobs, progress, enumerated, unsupported, batch, sent,
          report, log, snapshot, prelog, logfile, attempts, runs, folders,
          rotations>>

authVars  == <<store, got, credentials, flows, puts, authorized, mails>>
taskVars  == <<share_list, folder_id, error, files>>
queueVars == <<status, local, container, blobs>>
ghostVars == <<progress, enumerated, unsupported, attempts>>
shareVars == <<batch, sent>>
logVars   == <<snapshot, prelog, logfile>>
runVars   == <<runs, folders, rotations>>

\* ------------------------------------------------------------------- log
\* LOG is the module's logger; its records go to nephos.log, the file
\* upload_log copies and truncates.  A record: level, message, and for a
\* permission request the task and the entity.
Rec(level, msg) == <<level, msg, 0, "">>
GrantRec(level, msg, t, e) == <<level, msg, t, e>>

\* ------------------------------------------------------------------ Init
Init ==
  /\ pc = "idle"
  /\ exc = None
  /\ store \in {"absent", "invalid", "valid"}
  /\ got = None
  /\ credentials = None
  /\ flows = 0
  /\ puts = 0
  /\ authorized = <<>>
  /\ mails = <<>>
  /\ n = 0
  /\ idx = 0
  /\ share_list = <<>>
  /\ folder_id = None
  /\ error = None
  /\ files = <<>>
  /\ status = <<>>
  /\ local = <<>>
  /\ container = <<>>
  /\ blobs = <<>>
  /\ progress = <<>>
  /\ enumerated = <<>>
  /\ unsupported = <<>>
  /\ batch = <<>>
  /\ sent = <<>>
  /\ report = <<>>
  /\ log = <<>>
  /\ snapshot = None
  /\ prelog = None
  /\ logfile = "none"
  /\ attempts = <<>>
  /\ runs = 0
  /\ folders = <<>>
  /\ rotations = 0

\* ------------------------------------------------------------------ auth
\* _auth_from_file without the check of credentials.invalid.
AuthFromFileLenient(s) ==
  IF s # "absent" THEN [ok |-> TRUE,  cred |-> s]
                  ELSE [ok |-> FALSE, cred |-> None]

\* _auth_from_file returning whatever store.get() returned.
AuthFromFileUnchecked(s) == [ok |-> TRUE, cred |-> s]

\* _auth_from_file: the stored credentials, or OAuthFailure.
AuthFromFile(s) ==
  IF s = "valid" THEN [ok |-> TRUE,  cred |-> s]
                 ELSE [ok |-> FALSE, cred |-> None]

\* auth(), lines 45-50: load the stored credentials.
Auth ==
  /\ pc = "idle"
  /\ got' = store
  /\ LET r == AuthFromFile(store) IN
       IF r.ok
         THEN /\ credentials' = r.cred
              /\ log' = Append(log, Rec("info", "saved credentials"))
              /\ pc' = "auth_put"
         ELSE /\ credentials' = None
              /\ log' = Append(log, Rec("warning", "credentials file failed"))
              /\ pc' = "auth_flow"
  /\ UNCHANGED <<exc, store, flows, puts, authorized, mails, n, idx>>
  /\ UNCHANGED <<taskVars, queueVars, ghostVars, shareVars, report, logVars>>
  /\ UNCHANGED runVars

\* _init_auth_flow: the client secrets are read, the operator enters a code,
\* the code is exchanged.
InitAuthFlow ==
  /\ pc = "auth_flow"
  /\ flows' = flows + 1
  /\ \E outcome \in {"bad_secrets", "rejected", "ok"} :
       CASE outcome = "bad_secrets" ->
              /\ log' = log \o <<Rec("error", "invalid client secrets"),
                                  Rec("debug", "error")>>
              /\ exc' = "OAuthFailure"
              /\ pc' = "raised"
              /\ UNCHANGED credentials
         [] outcome = "rejected" ->
              /\ log' = log \o <<Rec("critical", "visit url"),
                                  Rec("error", "failed to authenticate"),
                                  Rec("debug", "error")>>
              /\ exc' = "OAuthFailure"
              /\ pc' = "raised"
              /\ UNCHANGED credentials
         [] outcome = "ok" ->
              /\ log' = log \o <<Rec("critical", "visit url"),
                                  Rec("info", "authenticated")>>
              /\ credentials' = "valid"
              /\ pc' = "auth_put"
              /\ UNCHANGED exc
  /\ UNCHANGED <<store, got, puts, authorized, mails, n, idx>>
  /\ UNCHANGED <<taskVars, queueVars, ghostVars, shareVars, report, logVars>>
  /\ UNCHANGED runVars

\* auth(), line 52: store.put(credentials).
StorePut ==
  /\ pc = "auth_put"
  /\ store' = credentials
  /\ puts' = puts + 1
  /\ pc' = "auth_build"
  /\ UNCHANGED <<exc, got, credentials, flows, authorized, mails, n, idx>>
  /\ UNCHANGED <<taskVars, queueVars, ghostVars, shareVars, report, log>>
  /\ UNCHANGED logVars
  /\ UNCHANGED runVars

\* auth(), lines 54-64: authorize and build the service; an HttpError sends
\* the critical mail and raises OAuthFailure.
Authorize ==
  /\ pc = "auth_build"
  /\ authorized' = Append(authorized, credentials)
  /\ \E ok \in BOOLEAN :
       IF ok
         THEN /\ pc' = "authed"
              /\ UNCHANGED <<exc, mails, log>>
         ELSE /\ log' = log \o <<Rec("critical", "authentication request failed"),
                                  Rec("debug", "error")>>
              /\ mails' = Append(mails, "critical")
              /\ exc' = "OAuthFailure"
              /\ pc' = "raised"
  /\ UNCHANGED <<store, got, credentials, flows, puts, n, idx>>
  /\ UNCHANGED <<taskVars, queueVars, ghostVars, shareVars, report, logVars>>
  /\ UNCHANGED runVars

\* ------------------------------------------------- the external queue
\* Uploader._set_uploading, Uploader._remove and the UploadingFailed
\* exception live in the base class and the exceptions module.
SetUploading(q, i) == [q EXCEPT ![i] = "Uploading"]
RemoveFolder(l, i) == [l EXCEPT ![i] = FALSE]
UploadingFailed(q, i) == [q EXCEPT ![i] = "Failed"]

\* --------------------------------------------------------------- helpers
\* _get_mimetype: the table, and the lookup by the last part of the name.
MimeTable ==
  [ext \in {"mp4", "txt", "srt", "log"} |->
     IF ext = "mp4" THEN "video/mp4" ELSE "text/plain"]

GetMimetype(filename) ==
  LET extension == filename[Len(filename)] IN
    IF extension \in DOMAIN MimeTable THEN MimeTable[extension] ELSE "KeyError"

\* _upload_file: what the call can end in.  The media type is looked up
\* before file_service.create is reached.
UploadFileOutcomes(filename) ==
  IF GetMimetype(filename) = "KeyError"
    THEN {"KeyError"}
    ELSE {"id", "noid"} \cup MediaErrors

\* _upload_files, lines 290-294: the listing without the encoder's side-car.
FilesToUpload(listing) == SelectSeq(listing, LAMBDA f : f # Sidecar)

\* ReportLine with the captured error left out of a failure line.
ReportLineBare(i, fid, err) ==
  IF fid # None THEN <<"uploaded", i, fid>> ELSE <<"failed", i, None>>

\* _upload, lines 119-131: the report line of a task.
ReportLine(i, fid, err) ==
  IF fid # None THEN <<"uploaded", i, fid>> ELSE <<"failed", i, err>>

\* _share, lines 362-372: one permission request per entity.
Grants(i, fid, shares) ==
  [k \in 1..Len(shares) |-> <<i, fid, shares[k]>>]

\* _share_callback, applied to every request of an executed batch.
ShareCallback(g) ==
  IF g[3] \in Refused
    THEN GrantRec("debug", "exception", g[1], g[3])
    ELSE GrantRec("debug", "permission id", g[1], g[3])

CallbackRecords(requests) ==
  [k \in 1..Len(requests) |-> ShareCallback(requests[k])]

\* Raised without the report line of a failed task.
RaisedUnreported(err, lg) ==
  IF err \in Caught
    THEN /\ log' = lg \o <<Rec("warning", "uploading failed"),
                            Rec("debug", err)>>
         /\ status' = UploadingFailed(status, idx)
         /\ folder_id' = None
         /\ error' = err
         /\ report' = report
         /\ files' = <<>>
         /\ pc' = "loop"
         /\ UNCHANGED exc
    ELSE /\ log' = lg
         /\ exc' = err
         /\ files' = <<>>
         /\ pc' = "raised"
         /\ UNCHANGED <<status, folder_id, error, report>>

\* An exception err leaves a step of the task at position idx, the log
\* being lg: lines 109-117 catch it and lines 126-131 report it, or it
\* leaves _upload.  The frame of _upload_files is gone either way.
Raised(err, lg) ==
  IF err \in Caught
    THEN /\ log' = lg \o <<Rec("warning", "uploading failed"),
                            Rec("debug", err)>>
         /\ status' = UploadingFailed(status, idx)
         /\ folder_id' = None
         /\ error' = err
         /\ report' = Append(report, ReportLine(idx, None, err))
         /\ files' = <<>>
         /\ pc' = "loop"
         /\ UNCHANGED exc
    ELSE /\ log' = lg
         /\ exc' = err
         /\ files' = <<>>
         /\ pc' = "raised"
         /\ UNCHANGED <<status, folder_id, error, report>>

\* --------------------------------------------------------------- _upload
\* _get_upload_service and lines 93-96: the stored credentials build the
\* service; the batch request is created once.
GetUploadService ==
  /\ pc = "idle"
  /\ LET r == AuthFromFile(store) IN
       IF ~r.ok
         THEN /\ log' = Append(log, Rec("warning", "credentials file failed"))
              /\ exc' = "OAuthFailure"
              /\ pc' = "raised"
              /\ UNCHANGED <<authorized, n, queueVars, ghostVars>>
         ELSE /\ authorized' = Append(authorized, r.cred)
              /\ \E built \in BOOLEAN :
                   IF built
                     THEN /\ \E len \in 0..MaxTasks :
                               /\ n' = len
                               /\ status' = [i \in 1..len |-> "Pending"]
                               /\ local' = [i \in 1..len |-> TRUE]
                               /\ container' = [i \in 1..len |-> "none"]
                               /\ blobs' = [i \in 1..len |-> 0]
                               /\ progress' = [i \in 1..len |-> "none"]
                               /\ enumerated' = [i \in 1..len |-> 0]
                               /\ unsupported' = [i \in 1..len |-> FALSE]
                               /\ attempts' = [i \in 1..len |-> 0]
                          /\ pc' = "loop"
                          /\ UNCHANGED exc
                     ELSE /\ exc' = "HttpError"
                          /\ pc' = "raised"
                          /\ UNCHANGED <<n, queueVars, ghostVars>>
              /\ UNCHANGED log
  /\ runs' = runs + 1
  /\ UNCHANGED <<store, got, credentials, flows, puts, mails, idx>>
  /\ UNCHANGED <<taskVars, shareVars, report, logVars, folders, rotations>>

\* Lines 97-102: the next task; it is marked Uploading.
TaskBegin ==
  /\ pc = "loop"
  /\ idx < n
  /\ idx' = idx + 1
  /\ share_list' = <<>>
  /\ folder_id' = None
  /\ error' = None
  /\ status' = SetUploading(status, idx + 1)
  /\ pc' = "create"
  /\ UNCHANGED <<exc, authVars, n, files, local, container, blobs>>
  /\ UNCHANGED <<ghostVars, shareVars, report, log, logVars>>
  /\ UNCHANGED runVars

\* Line 103, _create_folder: the Drive folder is created; the response may
\* hold no id.
CreateFolder ==
  /\ pc = "create"
  /\ progress' = [progress EXCEPT ![idx] = "issued"]
  /\ \E outcome \in {"id", "noid"} \cup CreateErrors :
       IF outcome \in {"id", "noid"}
         THEN /\ container' = [container EXCEPT ![idx] = outcome]
              /\ folders' = Append(folders, idx)
              /\ folder_id' = IF outcome = "id" THEN <<"folder", idx>> ELSE None
              /\ log' = Append(log, Rec("debug", "folder created"))
              /\ pc' = "list"
              /\ UNCHANGED <<exc, error, files, status, report>>
         ELSE /\ Raised(outcome, log)
              /\ UNCHANGED <<container, folders>>
  /\ UNCHANGED <<authVars, n, idx, share_list, local, blobs>>
  /\ UNCHANGED <<enumerated, unsupported, attempts, shareVars, logVars>>
  /\ UNCHANGED <<runs, rotations>>

\* _upload_files, lines 290-294: the folder is listed.
ListFiles ==
  /\ pc = "list"
  /\ \E listing \in Listings : files' = FilesToUpload(listing)
  /\ enumerated' = [enumerated EXCEPT ![idx] = Len(files')]
  /\ progress' = [progress EXCEPT ![idx] = "listed"]
  /\ pc' = "file"
  /\ UNCHANGED <<exc, authVars, n, idx, share_list, folder_id, error>>
  /\ UNCHANGED <<queueVars, unsupported, attempts, shareVars, report, log>>
  /\ UNCHANGED logVars
  /\ UNCHANGED runVars

\* UploadFile with the exception of a file's upload swallowed: the loop
\* goes on to the next file.
UploadFileSwallowing ==
  /\ pc = "file"
  /\ files # <<>>
  /\ unsupported' = [unsupported EXCEPT
                        ![idx] = @ \/ GetMimetype(Head(files)) = "KeyError"]
  /\ attempts' = [attempts EXCEPT ![idx] = @ + 1]
  /\ \E outcome \in UploadFileOutcomes(Head(files)) :
       /\ blobs' = IF outcome \in {"id", "noid"}
                     THEN [blobs EXCEPT ![idx] = @ + 1] ELSE blobs
       /\ files' = Tail(files)
       /\ log' = Append(log, Rec("debug", "file uploaded"))
       /\ UNCHANGED <<pc, exc, folder_id, error, status, report>>
  /\ UNCHANGED <<authVars, n, idx, share_list, local, container>>
  /\ UNCHANGED <<progress, enumerated, shareVars, logVars>>
  /\ UNCHANGED runVars

\* _upload_files, lines 295-296: the next file is uploaded.
UploadFile ==
  /\ pc = "file"
  /\ files # <<>>
  /\ unsupported' = [unsupported EXCEPT
                        ![idx] = @ \/ GetMimetype(Head(files)) = "KeyError"]
  /\ attempts' = [attempts EXCEPT ![idx] = @ + 1]
  /\ \E outcome \in UploadFileOutcomes(Head(files)) :
       IF outcome \in {"id", "noid"}
         THEN /\ blobs' = [blobs EXCEPT ![idx] = @ + 1]
              /\ files' = Tail(files)
              /\ log' = Append(log, Rec("debug", "file uploaded"))
              /\ UNCHANGED <<pc, exc, folder_id, error, status, report>>
         ELSE /\ Raised(outcome, log)
              /\ UNCHANGED blobs
  /\ UNCHANGED <<authVars, n, idx, share_list, local, container>>
  /\ UNCHANGED <<progress, enumerated, shareVars, logVars>>
  /\ UNCHANGED runVars

\* Line 105, _share: the requests are added to the batch of the run and
\* the batch is executed; the callback logs every request's outcome.
Share ==
  /\ pc = "file"
  /\ files = <<>>
  /\ \E shares \in ShareLists :
       LET requests == batch \o Grants(idx, folder_id, shares) IN
         /\ share_list' = shares
         /\ batch' = requests
         /\ IF requests = <<>>
              THEN /\ progress' = [progress EXCEPT ![idx] = "shared"]
                   /\ pc' = "remove"
                   /\ UNCHANGED <<exc, folder_id, error, files, status>>
                   /\ UNCHANGED <<report, log, sent>>
              ELSE \E outcome \in {"ok"} \cup BatchErrors :
                     IF outcome = "ok"
                       THEN /\ sent' = sent \o requests
                            /\ log' = log \o CallbackRecords(requests)
                            /\ progress' = [progress EXCEPT ![idx] = "shared"]
                            /\ pc' = "remove"
                            /\ UNCHANGED <<exc, folder_id, error, files>>
                            /\ UNCHANGED <<status, report>>
                       ELSE /\ Raised(outcome, log)
                            /\ UNCHANGED <<sent, progress>>
  /\ UNCHANGED <<authVars, n, idx, local, container, blobs>>
  /\ UNCHANGED <<enumerated, unsupported, attempts>>
  /\ UNCHANGED logVars
  /\ UNCHANGED runVars

\* Remove with the task's line put in front of the report.
RemovePrepending ==
  /\ pc = "remove"
  /\ local' = RemoveFolder(local, idx)
  /\ log' = log \o <<Rec("debug", "uploaded successfully"),
                      Rec("debug", "removed")>>
  /\ report' = <<ReportLine(idx, folder_id, error)>> \o report
  /\ pc' = "loop"
  /\ UNCHANGED <<exc, authVars, n, idx, taskVars, status, container, blobs>>
  /\ UNCHANGED <<ghostVars, shareVars, logVars>>
  /\ UNCHANGED runVars

\* Lines 106-108 and 119-131: the local folder is removed and the task's
\* line is added to the report.
Remove ==
  /\ pc = "remove"
  /\ local' = RemoveFolder(local, idx)
  /\ log' = log \o <<Rec("debug", "uploaded successfully"),
                      Rec("debug", "removed")>>
  /\ report' = Append(report, ReportLine(idx, folder_id, error))
  /\ pc' = "loop"
  /\ UNCHANGED <<exc, authVars, n, idx, taskVars, status, container, blobs>>
  /\ UNCHANGED <<ghostVars, shareVars, logVars>>
  /\ UNCHANGED runVars

\* ------------------------------------------------------------ upload_log
\* CopyLog without waiting for the loop to end.
CopyLogEarly ==
  /\ pc = "loop"
  /\ snapshot' = log
  /\ prelog' = log
  /\ rotations' = rotations + 1
  /\ pc' = "log_upload"
  /\ UNCHANGED <<exc, authVars, n, idx, taskVars, queueVars, ghostVars>>
  /\ UNCHANGED <<shareVars, report, log, logfile, runs, folders>>

\* Line 134 and lines 152-155: after the last task the log is copied.
CopyLog ==
  /\ pc = "loop"
  /\ idx = n
  /\ snapshot' = log
  /\ prelog' = log
  /\ rotations' = rotations + 1
  /\ pc' = "log_upload"
  /\ UNCHANGED <<exc, authVars, n, idx, taskVars, queueVars, ghostVars>>
  /\ UNCHANGED <<shareVars, report, log, logfile, runs, folders>>

\* Line 156: the copy is uploaded with _upload_file; upload_log catches
\* nothing and _upload calls it outside its try.
UploadLog ==
  /\ pc = "log_upload"
  /\ \E outcome \in UploadFileOutcomes(TimestampedLog) :
       IF outcome \in {"id", "noid"}
         THEN /\ logfile' = outcome
              /\ log' = Append(log, Rec("debug", "file uploaded"))
              /\ pc' = "log_finish"
              /\ UNCHANGED exc
         ELSE /\ logfile' = "raised"
              /\ exc' = outcome
              /\ pc' = "raised"
              /\ UNCHANGED log
  /\ UNCHANGED <<authVars, n, idx, taskVars, queueVars, ghostVars, shareVars>>
  /\ UNCHANGED <<report, snapshot, prelog>>
  /\ UNCHANGED runVars

\* Lines 157-163: with a file id the log is truncated; the copy is removed.
FinishLog ==
  /\ pc = "log_finish"
  /\ IF logfile = "id"
       THEN log' = <<Rec("debug", "logs uploaded")>>
       ELSE log' = Append(log, Rec("warning", "uploading logs failed"))
  /\ snapshot' = None
  /\ pc' = "done"
  /\ UNCHANGED <<exc, authVars, n, idx, taskVars, queueVars, ghostVars>>
  /\ UNCHANGED <<shareVars, report, prelog, logfile>>
  /\ UNCHANGED runVars

UploadNext ==
  \/ GetUploadService \/ TaskBegin \/ CreateFolder \/ ListFiles
  \/ UploadFile \/ Share \/ Remove \/ CopyLog \/ UploadLog \/ FinishLog

AuthNext == Auth \/ InitAuthFlow \/ StorePut \/ Authorize

Next == AuthNext \/ UploadNext

Spec == Init /\ [][Next]_vars

\* ------------------------------------------------------------ later runs
\* A task marked Failed stays in the queue and is handed to a later call
\* of _upload.  The runs followed here are those after a call in which
\* every task failed, where the list handed over is the list of the call
\* before.  Lines 93-96 run again: the stored credentials, a new service
\* and a new batch request; the loop starts over.  What is on Drive, in
\* the queue, on local storage and in nephos.log stays; the records kept
\* per call of _upload start over.
RunAgain ==
  /\ pc = "done"
  /\ got = None
  /\ runs < MaxRuns
  /\ n >= 1
  /\ \A i \in 1..n : status[i] = "Failed"
  /\ runs' = runs + 1
  /\ authorized' = Append(authorized, AuthFromFile(store).cred)
  /\ \E built \in BOOLEAN :
       IF built
         THEN pc' = "loop" /\ UNCHANGED exc
         ELSE pc' = "raised" /\ exc' = "HttpError"
  /\ idx' = 0
  /\ batch' = <<>>
  /\ sent' = <<>>
  /\ report' = <<>>
  /\ container' = [i \in 1..n |-> "none"]
  /\ blobs' = [i \in 1..n |-> 0]
  /\ progress' = [i \in 1..n |-> "none"]
  /\ enumerated' = [i \in 1..n |-> 0]
  /\ unsupported' = [i \in 1..n |-> FALSE]
  /\ attempts' = [i \in 1..n |-> 0]
  /\ prelog' = None
  /\ logfile' = "none"
  /\ rotations' = 0
  /\ UNCHANGED <<store, got, credentials, flows, puts, mails, n, taskVars>>
  /\ UNCHANGED <<status, local, log, snapshot, folders>>

RetryNext == Next \/ RunAgain

RetrySpec == Init /\ [][RetryNext]_vars

\* ======================================================================
\* Properties
\* ======================================================================
Tasks == 1..n

\* The loop is past task i: its steps and its report line are behind.
Ended(i) ==
  \/ i < idx
  \/ i = idx /\ pc \notin {"create", "list", "file", "remove"}

\* Container creation, the upload of every enumerated file and the share
\* call of task i all returned without an exception.
Completed(i) ==
  /\ container[i] # "none"
  /\ progress[i] = "shared"
  /\ blobs[i] = enumerated[i]

\* The upload of task i's last file raised after the others had succeeded.
LastFileFailed(i) ==
  /\ Ended(i)
  /\ progress[i] = "listed"
  /\ enumerated[i] >= 1
  /\ blobs[i] = enumerated[i] - 1

\* C1 (durability gate): a task's local folder is gone only if its folder
\* creation, every file upload and the share call returned without error,
\* and once the loop is past such a task its folder is gone; a task whose
\* last file failed still has its folder.
C1_DurabilityGate ==
  \A i \in Tasks :
    /\ ~local[i] => Completed(i)
    /\ (Ended(i) /\ Completed(i)) => ~local[i]
    /\ LastFileFailed(i) => local[i]

C1_Witness ==
  \E i, j \in Tasks :
    /\ Ended(i) /\ Completed(i) /\ ~local[i] /\ enumerated[i] = 2
    /\ LastFileFailed(j) /\ enumerated[j] = 2 /\ local[j]
    /\ status[j] = "Failed"

\* _upload has ended: it returned or an exception left it.
RunEnded == pc \in {"done", "raised"} /\ got = None

\* Task i failed: it was marked Failed, or an exception left _upload
\* while the loop was at it.
TaskFailed(i) ==
  \/ status[i] = "Failed"
  \/ i = idx /\ pc = "raised" /\ logfile = "none"

\* Task j was attempted: marked Uploading and its folder creation issued.
Attempted(j) == status[j] # "Pending" /\ progress[j] # "none"

\* C2 (task isolation): when task i fails during folder creation, file
\* upload or sharing, every later task is still attempted, in input order.
C2_TaskIsolation ==
  RunEnded =>
    \A i, j \in Tasks : (TaskFailed(i) /\ i < j) => Attempted(j)

\* The report lines about task i.
LinesOf(i) == {k \in 1..Len(report) : report[k][2] = i}

\* The loop of _upload has run to its end.
LoopOver ==
  \/ pc = "loop" /\ idx = n
  \/ pc \in {"log_upload", "log_finish", "done"}
  \/ pc = "raised" /\ logfile = "raised"

C4_MediaTypeRejection ==
  \A i \in Tasks :
    unsupported[i] =>
      /\ blobs[i] < enumerated[i]
      /\ status[i] = "Failed"
      /\ local[i]
      /\ \E k \in LinesOf(i) : report[k][1] = "failed"
      /\ pc # "raised"

\* upload_log has ended: it returned or an exception left it.
RotationEnded == pc = "done" \/ (pc = "raised" /\ logfile = "raised")

\* The upload of the log's copy failed: it raised, or returned no file id.
LogUploadFailed == logfile \in {"raised", "noid"}

\* C5 (log rotation): after upload_log, a failed upload leaves nephos.log
\* with the content it had before, a successful one leaves it empty, and
\* in both cases the time-stamped copy is gone.
C5_LogRotation ==
  RotationEnded =>
    /\ snapshot = None
    /\ LogUploadFailed => log = prelog
    /\ logfile = "id" => log = <<>>

\* C6: a failed upload of the log's copy is not fatal: the batch run
\* returns, no exception leaves it, and the failure is a warning record.
C6_LogFailureNotFatal ==
  (RotationEnded /\ LogUploadFailed) =>
    /\ pc = "done"
    /\ exc = None
    /\ log # <<>>
    /\ log[Len(log)] = Rec("warning", "uploading logs failed")

\* A report line about a task, and the record of the log upload's outcome.
TaskLine(l) == l[1] \in {"uploaded", "failed"}
LogOutcome(r) ==
  r \in {Rec("debug", "logs uploaded"), Rec("warning", "uploading logs failed")}

AuthLoaded ==
  got # None /\ pc \in {"auth_put", "auth_build", "authed", "raised"}

\* C8 (credential fallback): auth() enters the interactive flow once when
\* no credential is stored, once when the stored one is invalid, never
\* when it is valid; the credential is put in the store before it is
\* handed to authorize() and before auth() returns.
C8_CredentialFallback ==
  /\ flows <= 1
  /\ got = "valid" => flows = 0
  /\ (AuthLoaded /\ got \in {"absent", "invalid"}) => flows = 1
  /\ (got # None /\ authorized # <<>>) =>
       puts = 1 /\ store = credentials /\ authorized = <<credentials>>
  /\ pc = "authed" => (puts = 1 /\ store = credentials)

C8_Witness ==
  /\ pc = "authed"
  /\ got = "invalid"
  /\ flows = 1
  /\ store = "valid"
  /\ authorized = <<"valid">>

\* C9: whenever auth() ends in OAuthFailure the critical mail has been
\* sent, and no task is processed in that run.
C9_AuthFailureNotifies ==
  (got # None /\ pc = "raised" /\ exc = "OAuthFailure") =>
    /\ mails = <<"critical">>
    /\ idx = 0
    /\ report = <<>>

\* The entities of task i's share list, as the batch holds them.
RecipientsOf(i) == {batch[k][3] : k \in {m \in 1..Len(batch) : batch[m][1] = i}}

\* How often the callback logged an exception for task i's grant to e.
ExceptionsLogged(i, e) ==
  Cardinality({k \in 1..Len(log) : log[k] = GrantRec("debug", "exception", i, e)})

\* C10 (share independence): for a task with a recipient whose grant is
\* refused, the other recipients' grants are still sent, the task is
\* reported as uploaded and its local folder removed, and over the batch
\* run one failure is logged for the refused grant.
C10_ShareIndependence ==
  pc = "log_upload" =>
    \A i \in Tasks : \A e \in Refused :
      (progress[i] = "shared" /\ container[i] = "id" /\ e \in RecipientsOf(i)) =>
        /\ \A r \in RecipientsOf(i) :
             \E k \in 1..Len(sent) : sent[k] = <<i, <<"folder", i>>, r>>
        /\ \E k \in LinesOf(i) : report[k][1] = "uploaded"
        /\ ~local[i]
        /\ ExceptionsLogged(i, e) = 1

\* The step of task i at which a Drive call raised one of the classes the
\* except clause names, and the classes that call raises.
FailedAtCreate(i) == Ended(i) /\ progress[i] = "issued" /\ container[i] = "none"
FailedAtFile(i) ==
  Ended(i) /\ progress[i] = "listed" /\ blobs[i] < enumerated[i] /\ ~unsupported[i]
FailedAtShare(i) ==
  Ended(i) /\ progress[i] = "listed" /\ blobs[i] = enumerated[i]

RemoteFailure(i) == FailedAtCreate(i) \/ FailedAtFile(i) \/ FailedAtShare(i)

StepErrors(i) ==
  IF FailedAtCreate(i) THEN CreateErrors
  ELSE IF FailedAtFile(i) THEN MediaErrors
  ELSE BatchErrors

\* C11: a task whose folder creation, file upload or share call raised one
\* of the caught error classes is marked Failed, has exactly one report
\* line, a failure line carrying the error that was raised, has no success
\* line, and keeps its local folder.
C11_RemoteErrorFailsTask ==
  \A i \in Tasks :
    RemoteFailure(i) =>
      /\ status[i] = "Failed"
      /\ Cardinality(LinesOf(i)) = 1
      /\ \A k \in LinesOf(i) :
           report[k][1] = "failed" /\ report[k][3] \in StepErrors(i)
      /\ local[i]

C11_Witness ==
  /\ pc = "done"
  /\ n = 2
  /\ FailedAtCreate(1) /\ report[1] = <<"failed", 1, "HttpError">>
  /\ FailedAtFile(2) /\ blobs[2] = 1
  /\ report[2] = <<"failed", 2, "ResumableUploadError">>
  /\ local[1] /\ local[2]

\* upload_log has been entered in this call of _upload.
RotatorEntered ==
  \/ pc \in {"log_upload", "log_finish", "done"}
  \/ pc = "raised" /\ logfile = "raised"

\* C12: upload_log is called once per call of _upload, after the last
\* task: never twice, not before every task has its report line, always
\* once the loop has ended, whatever the number of tasks that failed with
\* a caught error.
C12_RotatorOnce ==
  /\ rotations <= 1
  /\ rotations = 1 <=> RotatorEntered
  /\ rotations = 1 =>
       /\ idx = n
       /\ \A i \in Tasks : Ended(i) /\ Cardinality(LinesOf(i)) = 1
  /\ (pc = "loop" /\ idx = n) => ENABLED CopyLog
  /\ (got = None /\ pc = "done") => rotations = 1

C12_Witness ==
  /\ pc = "done"
  /\ n = 2
  /\ \A i \in Tasks : status[i] = "Failed" /\ RemoteFailure(i)
  /\ rotations = 1

\* A call that reaches Drive has been made in this call of _upload.
RemoteCallMade == folders # <<>> \/ sent # <<>> \/ logfile # "none" \/ idx > 0

\* C13 (credential validity): every credential handed to authorize(), in
\* auth() and in _get_upload_service, is a valid one; with no stored
\* credential or an invalid one, _upload hands nothing to authorize() and
\* makes no Drive call, and auth() hands over the credential of the flow.
C13_CredentialValid ==
  /\ \A k \in 1..Len(authorized) : authorized[k] = "valid"
  /\ (got = None /\ store # "valid") => (authorized = <<>> /\ ~RemoteCallMade)
  /\ (got \in {"absent", "invalid"} /\ authorized # <<>>) => flows = 1
  /\ RemoteCallMade => authorized = <<"valid">>

C13_Witness ==
  /\ got = None
  /\ authorized = <<"valid">>
  /\ folders # <<>>
  /\ sent # <<>>
  /\ logfile = "id"

\* The requests of the submission _share made last: batch_service.execute()
\* sends what batch_service holds.
LastSubmission == IF pc = "remove" /\ sent # <<>> THEN batch ELSE <<>>

\* C14 (per-task batch scope): the submission _share makes for a task holds
\* one request per entity of that task's share list and no request of an
\* earlier task, so no permission request is sent twice in a call of
\* _upload.
C14_PerTaskBatchScope ==
  /\ pc = "remove" =>
       \A k \in 1..Len(LastSubmission) : LastSubmission[k][1] = idx
  /\ \A k, l \in 1..Len(sent) : sent[k] = sent[l] => k = l

\* C15: over any sequence of calls of _upload a task's folder is created
\* on Drive once: a task that failed after its folder was created and is
\* handed to a later call gets no second folder of the same name.
C15_ContainerOncePerTask ==
  \A k, l \in 1..Len(folders) : folders[k] = folders[l] => k = l

\* A call of _upload_file for a file of task i raised.
FileFailed(i) == attempts[i] > blobs[i]

\* The permission requests added to the batch for task i.
GrantsOf(i) == {k \in 1..Len(batch) : batch[k][1] = i}

\* C16: the failure of a file's upload ends the task's sequence: no
\* _upload_file call of the task follows the one that raised, _share is
\* not called for the task, its local folder stays and it gets no success
\* line, although its Drive folder and the files before exist.
C16_FileFailureAborts ==
  \A i \in Tasks :
    /\ attempts[i] <= blobs[i] + 1
    /\ attempts[i] <= enumerated[i]
    /\ FileFailed(i) =>
         /\ Ended(i)
         /\ progress[i] = "listed"
         /\ GrantsOf(i) = {}
         /\ local[i]
         /\ \A k \in LinesOf(i) : report[k][1] # "uploaded"
         /\ container[i] # "none"

C16_Witness ==
  /\ n = 2
  /\ enumerated[1] = 2 /\ attempts[1] = 1 /\ blobs[1] = 0
  /\ status[1] = "Failed" /\ container[1] = "id"
  /\ enumerated[2] = 2 /\ attempts[2] = 2 /\ blobs[2] = 1
  /\ status[2] = "Failed" /\ container[2] = "id"
  /\ pc = "done"

\* The order of task i's steps: Uploading before the folder creation is
\* issued, files only once the creation returned, the share call only
\* after every file, the removal only after the share call.
StepsInOrder(i) ==
  /\ progress[i] # "none" => status[i] # "Pending"
  /\ attempts[i] > 0 => (container[i] # "none" /\ progress[i] # "issued")
  /\ (progress[i] = "shared" \/ GrantsOf(i) # {}) =>
       (blobs[i] = enumerated[i] /\ attempts[i] = enumerated[i])
  /\ ~local[i] => progress[i] = "shared"

\* The files of the task the loop is at were uploaded into its Drive
\* folder: the parent _upload_file was given is the id of the folder
\* created.
FilesTargetFolder ==
  (pc = "file" /\ attempts[idx] > 0) =>
    IF folder_id = None THEN FALSE ELSE folder_id = <<"folder", idx>>

\* The order of the steps alone (it holds).
AllStepsInOrder == \A i \in Tasks : StepsInOrder(i)

\* C17 (per-task step order): a task is marked Uploading before its folder
\* creation is issued, its files are uploaded after its Drive folder exists
\* and into that folder, the share call comes after all its files were
\* uploaded, and the local removal after the share call returned.
C17_StepOrdering ==
  /\ AllStepsInOrder
  /\ FilesTargetFolder

\* C18: an exception of a class the except clause does not name, raised
\* in a step of task i (the KeyError of a file whose extension is not in
\* the table), leaves _upload: it is the exception of the call, task i is
\* not marked Failed and has no report line, no later task is begun,
\* upload_log is not called and nothing more happens in the call.
C18_OtherExceptionPropagates ==
  \A i \in Tasks :
    unsupported[i] =>
      /\ pc = "raised"
      /\ exc = "KeyError"
      /\ idx = i
      /\ status[i] = "Uploading"
      /\ LinesOf(i) = {}
      /\ \A j \in Tasks : j > i => (status[j] = "Pending" /\ progress[j] = "none")
      /\ rotations = 0
      /\ logfile = "none"
      /\ ~ENABLED UploadNext

C18_Witness ==
  /\ n = 2
  /\ unsupported[1]
  /\ blobs[1] = 1
  /\ exc = "KeyError"
  /\ status = <<"Uploading", "Pending">>
  /\ report = <<>>

\* Task i has a report line of the given kind.
HasLine(i, kind) == \E k \in LinesOf(i) : report[k][1] = kind

\* C19 (report and state agree): for every task the loop is past, it has
\* a success line exactly when its local folder was removed and a failure
\* line exactly when it was marked Failed, and a failure line carries the
\* error that was caught; so no task has its local folder removed and a
\* line that says its upload failed.
C19_ReportStateAgreement ==
  \A i \in Tasks :
    Ended(i) =>
      /\ HasLine(i, "uploaded") <=> ~local[i]
      /\ HasLine(i, "failed") <=> status[i] = "Failed"
      /\ \A k \in LinesOf(i) : report[k][1] = "failed" => report[k][3] # None

\* nephos.log is about to be truncated: the copy was uploaded and a file
\* id returned (line 157), line 158 is next.
AboutToTruncate == pc = "log_finish" /\ logfile = "id"

\* C20: a successful rotation loses no record: every record in nephos.log
\* when it is truncated is in the copy that was uploaded, also the records
\* written after the copy was taken.
C20_NoRecordLost ==
  AboutToTruncate =>
    /\ Len(log) <= Len(snapshot)
    /\ \A k \in 1..Len(log) : snapshot[k] = log[k]
====
